---- MODULE Spec2Model ----
(***************************************************************************)
(* PDF data extraction service: cache -> text extraction -> LLM -> cache   *)
(* store, with the HTTP endpoints and the CLI batch runner around it.      *)
(*                                                                         *)
(* Abstractions:                                                           *)
(*  - a PDF is named by its content; PdfOpen gives what pdfplumber finds   *)
(*    in those bytes (a parse failure, or the text of each page);          *)
(*  - sha256 is collision free: Sha256 wraps its argument;                 *)
(*  - a JSON value is a record [t, v]: a string, null, or an array;        *)
(*  - money is counted in units of 1e-9 USD (integers);                    *)
(*  - processing_time (wall clock) is left out of every record.            *)
(***************************************************************************)
EXTENDS Integers, Sequences, FiniteSets, TLC

\* ------------------------------------------------------------------------
\* Values
\* ------------------------------------------------------------------------

\* Python's None, and JSON null once parsed
None == [t |-> "null", v |-> ""]

Str(s) == [t |-> "str", v |-> s]

\* A JSON array returned by the model in place of a string
JList(s) == [t |-> "list", v |-> s]

\* The field names in play; "vendor" is in no schema (a field the model invents)
FieldNames == {"invoice_number", "total", "vendor"}

\* Python's ordering of these str keys ("invoice_number" < "total" < "vendor")
KeyRank(f) ==
    CASE f = "invoice_number" -> 1
      [] f = "total" -> 2
      [] f = "vendor" -> 3

Item(f, d) == [field |-> f, description |-> d]

\* An extraction schema is a dict: its items in insertion order, keys unique
SchemaAB == << Item("invoice_number", "number"), Item("total", "amount") >>

SchemaBA == << Item("total", "amount"), Item("invoice_number", "number") >>

SchemaA == << Item("invoice_number", "number") >>

Schemas == {SchemaAB, SchemaBA, SchemaA}

\* dict.keys()
Keys(schema) == {schema[i].field : i \in DOMAIN schema}

Labels == {None, Str("invoice")}

\* ------------------------------------------------------------------------
\* PDF text extraction (pdf_extractor.py)
\* ------------------------------------------------------------------------

Docs == {"corrupt", "nopages", "blank", "spaces", "invoice"}

\* What pdfplumber.open finds in the bytes: ok = FALSE when it raises
PdfOpen(pdf_content) ==
    CASE pdf_content = "corrupt" -> [ok |-> FALSE, pages |-> << >>]
      [] pdf_content = "nopages" -> [ok |-> TRUE, pages |-> << >>]
      [] pdf_content = "blank" -> [ok |-> TRUE, pages |-> << "" >>]
      [] pdf_content = "spaces" -> [ok |-> TRUE, pages |-> << "   " >>]
      [] pdf_content = "invoice" ->
            [ok |-> TRUE, pages |-> << "Invoice #1234, Total: $56.78", "page two" >>]

\* Truthiness of a Python str
StrTruthy(s) == s # ""

extract_text_from_pdf(pdf_content) ==
    LET pdf == PdfOpen(pdf_content) IN
    IF ~pdf.ok THEN None
    ELSE IF Len(pdf.pages) = 0 THEN None
    ELSE LET text == pdf.pages[1] IN
         IF StrTruthy(text) THEN Str(text) ELSE None

\* ------------------------------------------------------------------------
\* Cache (cache_service.py)
\* ------------------------------------------------------------------------

Sha256(x) == [sha256 |-> x]

\* The place of item p in a list sorted by key
RankIn(p, sorted) ==
    Cardinality({i \in DOMAIN sorted : KeyRank(sorted[i].field) < KeyRank(p.field)})

InsertSorted(p, sorted) ==
    LET k == RankIn(p, sorted) IN
    SubSeq(sorted, 1, k) \o << p >> \o SubSeq(sorted, k + 1, Len(sorted))

RECURSIVE SortItems(_)
SortItems(items) ==
    IF items = << >> THEN << >>
    ELSE InsertSorted(Head(items), SortItems(Tail(items)))

\* json.dumps without sort_keys: the items in insertion order
JsonDumpsUnsorted(extraction_schema) == extraction_schema

\* json.dumps(extraction_schema, sort_keys=True): the items in key order
JsonDumpsSorted(extraction_schema) == SortItems(extraction_schema)

_generate_key(pdf_content, extraction_schema) ==
    << Sha256(pdf_content), Sha256(JsonDumpsSorted(extraction_schema)) >>

\* dict.get(key): None when the key is absent
CacheGet(c, pdf_content, extraction_schema) ==
    LET key == _generate_key(pdf_content, extraction_schema) IN
    IF key \in DOMAIN c THEN c[key] ELSE None

\* A set that stores nothing
CacheSetDropped(c, pdf_content, extraction_schema, result) == c

\* self._cache[key] = result
CacheSet(c, pdf_content, extraction_schema, result) ==
    LET key == _generate_key(pdf_content, extraction_schema) IN
    [k \in DOMAIN c \cup {key} |-> IF k = key THEN result ELSE c[k]]

CacheClear == << >>

CacheSize(c) == Cardinality(DOMAIN c)

\* ------------------------------------------------------------------------
\* LLM service (llm_service.py)
\* ------------------------------------------------------------------------

\* USD 0.075 and 0.30 per million tokens, in 1e-9 USD per token
InputRate == 75

OutputRate == 300

\* A JSON object: a function from some field names to JSON values
Obj1 == [f \in {"invoice_number", "total"} |->
            IF f = "invoice_number" THEN Str("1234") ELSE Str("56.78")]

Obj2 == [f \in {"invoice_number"} |-> Str("1234")]

Obj3 == [f \in {"total", "vendor"} |->
            IF f = "total" THEN JList("56.78") ELSE Str("ACME")]

Obj4 == [f \in {"invoice_number", "total"} |->
            IF f = "invoice_number" THEN None ELSE Str("56.78")]

\* What the remote endpoint does with one request:
\*   raise   chat.completions.create raises (network, auth, ...)
\*   badjson the content is not JSON: json.loads raises
\*   ok      the content is a JSON object
LLMOutcomes ==
    { [kind |-> "raise", content |-> << >>, prompt_tokens |-> 0, completion_tokens |-> 0],
      [kind |-> "badjson", content |-> << >>, prompt_tokens |-> 100, completion_tokens |-> 20] }
    \cup [kind : {"ok"}, content : {Obj1, Obj2, Obj3, Obj4},
          prompt_tokens : {100}, completion_tokens : {20}]

\* dict.get(field) of the parsed response
JsonGet(obj, field) == IF field \in DOMAIN obj THEN obj[field] ELSE None

\* Truthiness of an Optional[str]
LabelTruthy(label) == label # None /\ label.v # ""

_build_prompt(text, extraction_schema, label) ==
    [label_context |-> IF LabelTruthy(label) THEN label ELSE Str(""),
     schema_text |-> extraction_schema,
     text |-> text]

AllNone(extraction_schema) == [f \in Keys(extraction_schema) |-> None]

\* extract_data returning the cost computed before the failure
extract_data_KeepsCost(text, extraction_schema, label, outcome) ==
    [extracted_data |->
        IF outcome.kind = "ok"
        THEN [f \in Keys(extraction_schema) |-> JsonGet(outcome.content, f)]
        ELSE AllNone(extraction_schema),
     cost |-> outcome.prompt_tokens * InputRate + outcome.completion_tokens * OutputRate,
     prompt |-> _build_prompt(text, extraction_schema, label),
     failed |-> outcome.kind # "ok"]

\* extract_data returning the parsed response as it came
extract_data_Raw(text, extraction_schema, label, outcome) ==
    [extracted_data |->
        IF outcome.kind = "ok" THEN outcome.content ELSE AllNone(extraction_schema),
     cost |-> IF outcome.kind = "ok"
              THEN outcome.prompt_tokens * InputRate + outcome.completion_tokens * OutputRate
              ELSE 0,
     prompt |-> _build_prompt(text, extraction_schema, label),
     failed |-> outcome.kind # "ok"]

\* extract_data with the two rates exchanged
extract_data_SwappedRates(text, extraction_schema, label, outcome) ==
    [extracted_data |->
        IF outcome.kind = "ok"
        THEN [f \in Keys(extraction_schema) |-> JsonGet(outcome.content, f)]
        ELSE AllNone(extraction_schema),
     cost |-> IF outcome.kind = "ok"
              THEN outcome.prompt_tokens * OutputRate + outcome.completion_tokens * InputRate
              ELSE 0,
     prompt |-> _build_prompt(text, extraction_schema, label),
     failed |-> outcome.kind # "ok"]

\* (extracted_data, cost) of LLMService.extract_data, with the prompt it sent
extract_data(text, extraction_schema, label, outcome) ==
    LET prompt == _build_prompt(text, extraction_schema, label) IN
    IF outcome.kind = "ok"
    THEN [extracted_data |-> [f \in Keys(extraction_schema) |-> JsonGet(outcome.content, f)],
          cost |-> outcome.prompt_tokens * InputRate + outcome.completion_tokens * OutputRate,
          prompt |-> prompt,
          failed |-> FALSE]
    ELSE [extracted_data |-> AllNone(extraction_schema),
          cost |-> 0,
          prompt |-> prompt,
          failed |-> TRUE]

\* The process-wide LLMService instance: "None" until first used
\* get_llm_service: [raised, llm_service]; LLMService() raises ValueError
\* when OPENAI_API_KEY is not set
get_llm_service(svc, key_set) ==
    IF svc = "None"
    THEN IF key_set THEN [raised |-> FALSE, llm_service |-> "LLMService"]
         ELSE [raised |-> TRUE, llm_service |-> "None"]
    ELSE [raised |-> FALSE, llm_service |-> svc]

\* ------------------------------------------------------------------------
\* Extraction service (extraction_service.py)
\* ------------------------------------------------------------------------

Result(data, cost, hit) == [extracted_data |-> data, cost |-> cost, cache_hit |-> hit]

NoResult == Result(<< >>, 0, FALSE)

\* A test of the cached result that never succeeds
DictNeverTruthy(d) == FALSE

\* Truthiness of what cache_service.get returned: None, or a dict
DictTruthy(d) == d # None /\ DOMAIN d # {}

\* A test of the text that always succeeds
TextAlwaysTruthy(text) == TRUE

\* Truthiness of an Optional[str]: None and "" are falsy
TextTruthy(text) == text # None /\ text.v # ""

\* What a call of ExtractionService.extract gives back:
\*   raised      an exception left the call (result is then meaningless)
\*   result      the returned dict
\*   cache, llm_service   the two globals afterwards
\*   path        hit | notext | llm_ok | llm_fail | raised
\*   llm_called  the remote endpoint was invoked, with prompt
Returned(result, c, svc, path) ==
    [raised |-> FALSE, result |-> result, cache |-> c, llm_service |-> svc,
     path |-> path, llm_called |-> FALSE, prompt |-> None]

\* The return on a cache hit
HitReturn(c, svc, cached_result) ==
    Returned(Result(cached_result.extracted_data, cached_result.cost, TRUE),
             c, svc, "hit")

NoTextReturnStored(c, svc, pdf_content, extraction_schema) ==
    LET result == Result(AllNone(extraction_schema), 0, FALSE) IN
    Returned(result, CacheSet(c, pdf_content, extraction_schema, result), svc, "notext")

\* The return when the document has no text
NoTextReturn(c, svc, pdf_content, extraction_schema) ==
    Returned(Result(AllNone(extraction_schema), 0, FALSE), c, svc, "notext")

\* The LLM call, the cache store and the return
LLMReturn(c, svc, key_set, pdf_content, extraction_schema, label, text, outcome) ==
    LET got == get_llm_service(svc, key_set) IN
    IF got.raised
    THEN [raised |-> TRUE, result |-> NoResult, cache |-> c,
          llm_service |-> got.llm_service, path |-> "raised",
          llm_called |-> FALSE, prompt |-> None]
    ELSE LET llm == extract_data(text, extraction_schema, label, outcome)
             result == Result(llm.extracted_data, llm.cost, FALSE)
         IN  [raised |-> FALSE, result |-> result,
              cache |-> CacheSet(c, pdf_content, extraction_schema, result),
              llm_service |-> got.llm_service,
              path |-> IF llm.failed THEN "llm_fail" ELSE "llm_ok",
              llm_called |-> TRUE, prompt |-> llm.prompt]

\* extract with the cache keyed by the label, when one is given, in place of
\* the bytes
ExtractLabelKeyed(c, svc, key_set, pdf_content, extraction_schema, label, outcome) ==
    LET keyed == IF LabelTruthy(label) THEN label.v ELSE pdf_content
        cached_result == CacheGet(c, keyed, extraction_schema)
        text == extract_text_from_pdf(pdf_content)
    IN
    IF DictTruthy(cached_result)
    THEN HitReturn(c, svc, cached_result)
    ELSE IF ~TextTruthy(text)
    THEN NoTextReturn(c, svc, pdf_content, extraction_schema)
    ELSE LET r == LLMReturn(c, svc, key_set, pdf_content, extraction_schema, label,
                            text, outcome)
         IN  [r EXCEPT !.cache = IF r.llm_called
                                 THEN CacheSet(c, keyed, extraction_schema, r.result)
                                 ELSE c]

\* ExtractionService.extract on cache c
Extract(c, svc, key_set, pdf_content, extraction_schema, label, outcome) ==
    LET cached_result == CacheGet(c, pdf_content, extraction_schema)
        text == extract_text_from_pdf(pdf_content)
    IN
    IF DictTruthy(cached_result)
    THEN HitReturn(c, svc, cached_result)
    ELSE IF ~TextTruthy(text)
    THEN NoTextReturn(c, svc, pdf_content, extraction_schema)
    ELSE LLMReturn(c, svc, key_set, pdf_content, extraction_schema, label, text, outcome)

\* ------------------------------------------------------------------------
\* State
\* ------------------------------------------------------------------------

VARIABLES
    cache,        \* cache_service._cache: key -> stored result
    llm_service,  \* llm_service._llm_service: "None" | "LLMService"
    api_key,      \* whether OPENAI_API_KEY is set in the environment
    last,         \* the latest call on the extraction service and what it gave,
                  \* with the schema, label and path of the call before it when
                  \* that one was an extract of the same document
    ncalls,       \* how many calls were made
    handler,      \* the HTTP handler running: "idle" | "batch"
    batch,        \* extract_batch's locals while its loop runs
    resp,         \* the latest HTTP response, with the request it answers
    cli,          \* the cli_extract.py process: its position, locals and output
    running,      \* the request whose handler holds the event loop, 0 if none
    tasks,        \* per HTTP request in flight: its handler's position and locals
    llm_calls     \* per cache key, the requests sent to the remote endpoint
                  \* since the cache was last cleared

coreVars == << cache, llm_service, api_key >>

svcVars == << last, ncalls >>

httpVars == << handler, batch, resp >>

concVars == << running, tasks, llm_calls >>

vars ==
    << cache, llm_service, api_key, last, ncalls, handler, batch, resp, cli,
       running, tasks, llm_calls >>

\* Calls made on the service in one run
MaxCalls == 3

\* No request was sent to the remote endpoint
NoOutcome == [kind |-> "", content |-> << >>, prompt_tokens |-> 0, completion_tokens |-> 0]

\* What is kept of the call before the latest one
NoPrev == [extraction_schema |-> << >>, label |-> None, path |-> ""]

NoCall ==
    [op |-> "none", pdf_content |-> "", extraction_schema |-> << >>, label |-> None,
     had_entry |-> FALSE, outcome |-> NoOutcome,
     raised |-> FALSE, result |-> NoResult, path |-> "", llm_called |-> FALSE,
     prompt |-> None, prev |-> NoPrev]

CoreInit ==
    /\ cache = << >>
    /\ llm_service = "None"
    /\ api_key \in BOOLEAN

\* extract_batch is not running
NoBatch ==
    [requests |-> << >>, i |-> 0, results |-> << >>, total_cost |-> 0,
     fates |-> << >>, pipeline |-> << >>]

NoResp ==
    [endpoint |-> "", status |-> 0, body |-> NoResult, schema_kind |-> "",
     requests |-> << >>, results |-> << >>, total_cost |-> 0,
     fates |-> << >>, pipeline |-> << >>]

HttpIdle ==
    /\ handler = "idle"
    /\ batch = NoBatch
    /\ resp = NoResp

\* cli_extract.py has not started
NoCli ==
    [pc |-> "start", batch_data |-> << >>, i |-> 0, results |-> << >>,
     total_cost |-> 0, exit |-> -1, output |-> << >>]

\* HTTP requests in flight at once in one server process
MaxRequests == 2

Requests == 1 .. MaxRequests

\* A request not yet received
NoTask ==
    [kind |-> "", pc |-> "new", suspended |-> FALSE, items |-> << >>, i |-> 0,
     pdf_content |-> "", pending |-> NoResult, paths |-> << >>]

ConcIdle ==
    /\ running = 0
    /\ tasks = [r \in Requests |-> NoTask]
    /\ llm_calls = << >>

SvcIdle ==
    /\ last = NoCall
    /\ ncalls = 0

Init ==
    /\ CoreInit
    /\ SvcIdle
    /\ HttpIdle
    /\ cli = NoCli
    /\ ConcIdle

\* One more request sent to the remote endpoint for the key
Bump(calls, key) ==
    [k \in DOMAIN calls \cup {key} |->
        IF k = key THEN (IF k \in DOMAIN calls THEN calls[k] ELSE 0) + 1 ELSE calls[k]]

\* extraction_service.extract(pdf_content, extraction_schema, label)
ExtractCall(pdf_content, extraction_schema, label, outcome) ==
    /\ ncalls < MaxCalls
    /\ \E r \in {Extract(cache, llm_service, api_key, pdf_content, extraction_schema,
                          label, outcome)} :
        /\ cache' = r.cache
        /\ llm_service' = r.llm_service
        /\ last' = [op |-> "extract", pdf_content |-> pdf_content,
                    extraction_schema |-> extraction_schema, label |-> label,
                    had_entry |-> _generate_key(pdf_content, extraction_schema) \in DOMAIN cache,
                    outcome |-> IF r.llm_called THEN outcome ELSE NoOutcome,
                    raised |-> r.raised, result |-> r.result, path |-> r.path,
                    llm_called |-> r.llm_called, prompt |-> r.prompt,
                    prev |-> IF last.op = "extract" /\ last.pdf_content = pdf_content
                             THEN [extraction_schema |-> last.extraction_schema,
                                   label |-> last.label, path |-> last.path]
                             ELSE NoPrev]
        /\ llm_calls' = IF r.llm_called
                        THEN Bump(llm_calls, _generate_key(pdf_content, extraction_schema))
                        ELSE llm_calls
    /\ ncalls' = ncalls + 1
    /\ UNCHANGED << api_key, httpVars, cli, running, tasks >>

\* cache_service.clear()
ClearCall ==
    /\ ncalls < MaxCalls
    /\ cache' = CacheClear
    /\ last' = [NoCall EXCEPT !.op = "clear"]
    /\ llm_calls' = << >>
    /\ ncalls' = ncalls + 1
    /\ UNCHANGED << llm_service, api_key, httpVars, cli, running, tasks >>

\* The remote endpoint answers only the calls that reach it
OutcomesOf(c, svc, key_set, pdf_content, extraction_schema, label) ==
    IF Extract(c, svc, key_set, pdf_content, extraction_schema, label, NoOutcome).llm_called
    THEN LLMOutcomes
    ELSE {NoOutcome}

Next ==
    \/ \E d \in Docs, s \in Schemas, l \in Labels :
        \E o \in OutcomesOf(cache, llm_service, api_key, d, s, l) :
            ExtractCall(d, s, l, o)
    \/ ClearCall

Spec == Init /\ [][Next]_vars

\* response.usage.prompt_tokens and response.usage.completion_tokens
TokenCounts == {0, 1, 20, 100}

\* The answers of the remote endpoint, over the token counts it may report
CostOutcomes ==
    {o \in LLMOutcomes : o.kind = "raise"}
        \cup [kind : {"ok"}, content : {Obj1},
              prompt_tokens : TokenCounts, completion_tokens : TokenCounts]

\* The calls of extract on a document with text, whatever the usage reported
CostNext ==
    \E s \in {SchemaAB, SchemaA}, l \in Labels :
        \E o \in (IF OutcomesOf(cache, llm_service, api_key, "invoice", s, l) = {NoOutcome}
                   THEN {NoOutcome} ELSE CostOutcomes) :
            ExtractCall("invoice", s, l, o)

SpecCost == Init /\ [][CostNext]_vars

\* ------------------------------------------------------------------------
\* HTTP endpoints (main.py)
\* ------------------------------------------------------------------------

\* A path is the sequence of its components; an absolute one starts with "/"
IsAbs(path) == path # << >> /\ path[1] = "/"

\* os.path.join(base, path)
OsPathJoin(base, path) == IF IsAbs(path) THEN path ELSE base \o path

\* The files on disk and what they hold (the working directory is the root of
\* the relative paths)
FileSystem ==
    (<< "files", "invoice.pdf" >> :> "invoice")
        @@ (<< "blank.pdf" >> :> "blank")
        @@ (<< "/", "data", "invoice.pdf" >> :> "invoice")

OsPathExists(path) == path \in DOMAIN FileSystem

ReadFile(path) == FileSystem[path]

\* ExtractionResponse(extracted_data, cost, cache_hit)
ExtractionResponse(data, cost, hit) ==
    [extracted_data |-> data, cost |-> cost, cache_hit |-> hit]

\* pydantic's validation of extracted_data: Dict[str, Optional[str]]
ResponseValid(data) == \A f \in DOMAIN data : data[f].t \in {"str", "null"}

\* The extraction_schema form field of POST /extract
FormSchemas ==
    { [kind |-> "object", value |-> SchemaAB],
      [kind |-> "array", value |-> << >>],
      [kind |-> "malformed", value |-> << >>] }

\* json.loads raises JSONDecodeError on text that is not JSON
JsonLoads(form) == [ok |-> form.kind # "malformed", kind |-> form.kind, value |-> form.value]

\* extract called with parsed JSON: a value that is no dict has no keys() or
\* items(), and the first use of either raises AttributeError
ExtractJson(c, svc, key_set, pdf_content, schema_json, label, outcome) ==
    IF schema_json.kind = "object"
    THEN Extract(c, svc, key_set, pdf_content, schema_json.value, label, outcome)
    ELSE LET text == extract_text_from_pdf(pdf_content)
             got == get_llm_service(svc, key_set)
         IN  [raised |-> TRUE, result |-> NoResult, cache |-> c,
              llm_service |-> IF TextTruthy(text) THEN got.llm_service ELSE svc,
              path |-> "raised", llm_called |-> FALSE, prompt |-> None]

\* except Exception also catches HTTPException, which derives from Exception
CaughtByExceptException(exc) == exc \in {"Exception", "HTTPException400"}

\* The status the client sees: the handler's return, or the HTTPException
\* that leaves it
ExtractStatus(exc) ==
    IF CaughtByExceptException(exc) THEN 500
    ELSE IF exc = "HTTPException400" THEN 400
    ELSE 200

\* The try block of extract (lines 60-77): the exception it ends with, if any
ExtractTry(c, svc, key_set, label, form, pdf_content, outcome) ==
    LET schema_dict == JsonLoads(form) IN
    IF ~schema_dict.ok
    THEN [exc |-> "HTTPException400", body |-> NoResult, cache |-> c, llm_service |-> svc]
    ELSE LET r == ExtractJson(c, svc, key_set, pdf_content, schema_dict, label, outcome) IN
         IF r.raised
         THEN [exc |-> "Exception", body |-> NoResult, cache |-> r.cache,
               llm_service |-> r.llm_service]
         ELSE IF ~ResponseValid(r.result.extracted_data)
         THEN [exc |-> "Exception", body |-> NoResult, cache |-> r.cache,
               llm_service |-> r.llm_service]
         ELSE [exc |-> "none",
               body |-> ExtractionResponse(r.result.extracted_data, r.result.cost,
                                           r.result.cache_hit),
               cache |-> r.cache, llm_service |-> r.llm_service]

\* POST /extract
PostExtract(label, form, pdf_content, outcome) ==
    /\ handler = "idle"
    /\ \E t \in {ExtractTry(cache, llm_service, api_key, label, form, pdf_content, outcome)} :
        /\ cache' = t.cache
        /\ llm_service' = t.llm_service
        /\ resp' = [NoResp EXCEPT !.endpoint = "/extract",
                                  !.status = ExtractStatus(t.exc),
                                  !.body = t.body,
                                  !.schema_kind = form.kind]
    /\ UNCHANGED << api_key, handler, batch, svcVars, cli, concVars >>

\* The PDF of a batch item (lines 108-116): found = FALSE is FileNotFoundError
ReadItemPdf(pdf_path) ==
    IF OsPathExists(pdf_path)
    THEN [found |-> TRUE, pdf_content |-> ReadFile(pdf_path)]
    ELSE IF OsPathExists(OsPathJoin(<< "files" >>, pdf_path))
    THEN [found |-> TRUE, pdf_content |-> ReadFile(OsPathJoin(<< "files" >>, pdf_path))]
    ELSE [found |-> FALSE, pdf_content |-> ""]

BatchItem(label, schema, pdf_path) ==
    [label |-> label, extraction_schema |-> schema, pdf_path |-> pdf_path]

\* The validated items a batch request may hold
BatchItems ==
    { BatchItem(Str("invoice"), SchemaAB, << "invoice.pdf" >>),
      BatchItem(Str("invoice"), SchemaA, << "invoice.pdf" >>),
      BatchItem(Str("invoice"), SchemaA, << "blank.pdf" >>),
      BatchItem(Str("invoice"), SchemaAB, << "missing.pdf" >>) }

\* Items in one batch request
MaxBatch == 3

RECURSIVE SeqsUpTo(_, _)
SeqsUpTo(S, n) ==
    IF n = 0 THEN { << >> }
    ELSE LET shorter == SeqsUpTo(S, n - 1) IN
         shorter \cup { Append(q, x) : q \in {t \in shorter : Len(t) = n - 1}, x \in S }

BatchExceptSkips(results, item) == results

\* The except clause (lines 131-138): the all-None record takes the item's place
BatchExcept(results, item) ==
    Append(results, ExtractionResponse(AllNone(item.extraction_schema), 0, FALSE))

\* The try block of one iteration (lines 107-130) and what it leaves behind:
\* total_cost is added to before the response record is built
BatchTry(b, c, svc, key_set, item, outcome) ==
    LET pdf == ReadItemPdf(item.pdf_path) IN
    IF ~pdf.found
    THEN [fate |-> "file_not_found", results |-> b.results, total_cost |-> b.total_cost,
          cache |-> c, llm_service |-> svc, pipeline |-> NoResult]
    ELSE LET r == Extract(c, svc, key_set, pdf.pdf_content, item.extraction_schema,
                          item.label, outcome)
         IN
         IF r.raised
         THEN [fate |-> "extract_raised", results |-> b.results,
               total_cost |-> b.total_cost,
               cache |-> r.cache, llm_service |-> r.llm_service, pipeline |-> NoResult]
         ELSE IF ~ResponseValid(r.result.extracted_data)
         THEN [fate |-> "response_invalid", results |-> b.results,
               total_cost |-> b.total_cost + r.result.cost,
               cache |-> r.cache, llm_service |-> r.llm_service, pipeline |-> r.result]
         ELSE [fate |-> "ok",
               results |-> Append(b.results,
                                  ExtractionResponse(r.result.extracted_data,
                                                     r.result.cost, r.result.cache_hit)),
               total_cost |-> b.total_cost + r.result.cost,
               cache |-> r.cache, llm_service |-> r.llm_service, pipeline |-> r.result]

\* One iteration of the loop of extract_batch
BatchIteration(b, c, svc, key_set, outcome) ==
    LET item == b.requests[b.i]
        t == BatchTry(b, c, svc, key_set, item, outcome)
    IN  [batch |-> [requests |-> b.requests,
                    i |-> b.i + 1,
                    results |-> IF t.fate = "ok" THEN t.results
                                ELSE BatchExcept(t.results, item),
                    total_cost |-> t.total_cost,
                    fates |-> Append(b.fates, t.fate),
                    pipeline |-> Append(b.pipeline, t.pipeline)],
         cache |-> t.cache,
         llm_service |-> t.llm_service]

\* POST /extract-batch: the handler starts (lines 99-101)
BatchStart(requests) ==
    /\ handler = "idle"
    /\ handler' = "batch"
    /\ batch' = [NoBatch EXCEPT !.requests = requests, !.i = 1]
    /\ resp' = NoResp
    /\ UNCHANGED << coreVars, svcVars, cli, concVars >>

\* The document of the item the loop is at, when there is one
ItemOutcomes(b, c, svc, key_set) ==
    LET item == b.requests[b.i]
        pdf == ReadItemPdf(item.pdf_path)
    IN  IF pdf.found
        THEN OutcomesOf(c, svc, key_set, pdf.pdf_content, item.extraction_schema, item.label)
        ELSE {NoOutcome}

\* The loop body runs for the next item (lines 105-138)
BatchStep ==
    /\ handler = "batch"
    /\ batch.i <= Len(batch.requests)
    /\ \E o \in ItemOutcomes(batch, cache, llm_service, api_key) :
        \E n \in {BatchIteration(batch, cache, llm_service, api_key, o)} :
            /\ batch' = n.batch
            /\ cache' = n.cache
            /\ llm_service' = n.llm_service
    /\ UNCHANGED << api_key, handler, resp, svcVars, cli, concVars >>

\* The loop is over: the response is built and returned (lines 140-146)
BatchFinish ==
    /\ handler = "batch"
    /\ batch.i > Len(batch.requests)
    /\ handler' = "idle"
    /\ resp' = [NoResp EXCEPT !.endpoint = "/extract-batch",
                              !.status = 200,
                              !.requests = batch.requests,
                              !.results = batch.results,
                              !.total_cost = batch.total_cost,
                              !.fates = batch.fates,
                              !.pipeline = batch.pipeline]
    /\ batch' = NoBatch
    /\ UNCHANGED << coreVars, svcVars, cli, concVars >>

\* The documents a client uploads to POST /extract
Uploads == {"invoice", "blank"}

HttpNext ==
    \/ \E f \in FormSchemas, d \in Uploads :
        \E o \in OutcomesOf(cache, llm_service, api_key, d, SchemaAB, Str("invoice")) :
            PostExtract(Str("invoice"), f, d, o)
    \/ \E requests \in SeqsUpTo(BatchItems, MaxBatch) : BatchStart(requests)
    \/ BatchStep
    \/ BatchFinish

HttpInit ==
    /\ CoreInit
    /\ SvcIdle
    /\ HttpIdle
    /\ cli = NoCli
    /\ ConcIdle

\* The HTTP server handling one request after another
SpecHttp == HttpInit /\ [][HttpNext]_vars

\* ------------------------------------------------------------------------
\* CLI batch runner (cli_extract.py)
\* ------------------------------------------------------------------------

\* Directories on disk: they exist, and open() on one raises
Directories == { << "files" >> }

CliPathExists(path) == OsPathExists(path) \/ path \in Directories

\* --base-dir (its default)
BaseDir == << "files" >>

\* dict.get(key, default)
DictGet(d, key, default) == IF key \in DOMAIN d THEN d[key] ELSE default

\* An element of the loaded JSON array: an object, or a value that is none
JsonObject(fields) == [kind |-> "object", fields |-> fields]

JsonNumber == [kind |-> "number", fields |-> << >>]

CliItems ==
    { JsonObject([label |-> Str("invoice"), extraction_schema |-> SchemaAB,
                  pdf_path |-> << "invoice.pdf" >>]),
      JsonObject([extraction_schema |-> SchemaA,
                  pdf_path |-> << "/", "data", "invoice.pdf" >>]),
      JsonObject([label |-> Str("invoice"), extraction_schema |-> SchemaA,
                  pdf_path |-> << "missing.pdf" >>]),
      JsonObject(<< >>),
      JsonNumber }

\* What json.load finds in the --json file: an array, or another value
CliInputs ==
    [is_list : {TRUE}, data : SeqsUpTo(CliItems, MaxBatch)]
        \cup { [is_list |-> FALSE, data |-> << >>] }

CliError(label, pdf_path, error) ==
    [label |-> label, pdf_path |-> pdf_path, error |-> error,
     extracted_data |-> None, cost |-> 0, cache_hit |-> FALSE]

CliOk(label, pdf_path, result) ==
    [label |-> label, pdf_path |-> pdf_path, error |-> "",
     extracted_data |-> result.extracted_data, cost |-> result.cost,
     cache_hit |-> result.cache_hit]

\* main up to the call of process_batch (lines 151-160): load_batch_json
\* raises unless the file holds an array, and an empty array is refused
CliLoad(input) ==
    /\ cli.pc = "start"
    /\ cli' = IF input.is_list /\ input.data # << >>
              THEN [NoCli EXCEPT !.pc = "loop", !.batch_data = input.data, !.i = 1]
              ELSE [NoCli EXCEPT !.pc = "done", !.exit = 1]
    /\ UNCHANGED << coreVars, svcVars, httpVars, concVars >>

\* The except clause of process_batch (lines 92-99): item.get raises
\* AttributeError again when the item is no dict, and nothing catches it
\* before main
CliExcept(item, error) ==
    IF item.kind = "object"
    THEN [raised |-> FALSE,
          record |-> CliError(DictGet(item.fields, "label", Str("unknown")),
                              DictGet(item.fields, "pdf_path", << >>), error)]
    ELSE [raised |-> TRUE, record |-> CliError(None, << >>, error)]

\* One iteration of the loop of process_batch (lines 49-99):
\*   escaped   an exception left process_batch
\*   record    the result appended otherwise
CliIteration(c, svc, key_set, item, outcome) ==
    LET path0 == DictGet(item.fields, "pdf_path", << >>)
        pdf_path == IF IsAbs(path0) THEN path0 ELSE OsPathJoin(BaseDir, path0)
        label == DictGet(item.fields, "label", Str("unknown"))
        handled(error) ==
            LET e == CliExcept(item, error) IN
            [escaped |-> e.raised, record |-> e.record, cost |-> 0,
             cache |-> c, llm_service |-> svc]
    IN
    IF item.kind # "object" THEN handled("AttributeError")
    ELSE IF ~CliPathExists(pdf_path)
    THEN [escaped |-> FALSE, record |-> CliError(label, path0, "PDF not found"),
          cost |-> 0, cache |-> c, llm_service |-> svc]
    ELSE IF pdf_path \in Directories THEN handled("IsADirectoryError")
    ELSE LET r == Extract(c, svc, key_set, ReadFile(pdf_path),
                          DictGet(item.fields, "extraction_schema", << >>),
                          DictGet(item.fields, "label", None), outcome)
         IN  IF r.raised
             THEN LET e == CliExcept(item, "ValueError") IN
                  [escaped |-> e.raised, record |-> e.record, cost |-> 0,
                   cache |-> r.cache, llm_service |-> r.llm_service]
             ELSE [escaped |-> FALSE, record |-> CliOk(label, path0, r.result),
                   cost |-> r.result.cost, cache |-> r.cache,
                   llm_service |-> r.llm_service]

\* The outcomes of the remote endpoint for the item the loop is at
CliOutcomes(c, svc, key_set, item) ==
    LET path0 == DictGet(item.fields, "pdf_path", << >>)
        pdf_path == IF IsAbs(path0) THEN path0 ELSE OsPathJoin(BaseDir, path0)
    IN  IF item.kind = "object" /\ OsPathExists(pdf_path)
        THEN OutcomesOf(c, svc, key_set, ReadFile(pdf_path),
                        DictGet(item.fields, "extraction_schema", << >>),
                        DictGet(item.fields, "label", None))
        ELSE {NoOutcome}

\* The loop body runs for the next item; an exception that leaves
\* process_batch is caught in main, which exits with status 1 and writes no
\* results (lines 187-191)
CliStep ==
    /\ cli.pc = "loop"
    /\ cli.i <= Len(cli.batch_data)
    /\ \E o \in CliOutcomes(cache, llm_service, api_key, cli.batch_data[cli.i]) :
        \E n \in {CliIteration(cache, llm_service, api_key, cli.batch_data[cli.i], o)} :
            /\ cache' = n.cache
            /\ llm_service' = n.llm_service
            /\ cli' = IF n.escaped
                      THEN [cli EXCEPT !.pc = "done", !.exit = 1]
                      ELSE [cli EXCEPT !.i = cli.i + 1,
                                       !.results = Append(cli.results, n.record),
                                       !.total_cost = cli.total_cost + n.cost]
    /\ UNCHANGED << api_key, svcVars, httpVars, concVars >>

\* process_batch returns and main writes the results (lines 101-186)
CliFinish ==
    /\ cli.pc = "loop"
    /\ cli.i > Len(cli.batch_data)
    /\ cli' = [cli EXCEPT !.pc = "done", !.exit = 0, !.output = cli.results]
    /\ UNCHANGED << coreVars, svcVars, httpVars, concVars >>

CliNext ==
    \/ \E input \in CliInputs : CliLoad(input)
    \/ CliStep
    \/ CliFinish

\* One run of cli_extract.py
SpecCli == Init /\ [][CliNext]_vars

\* ------------------------------------------------------------------------
\* Properties of the CLI batch runner (under SpecCli)
\* ------------------------------------------------------------------------

\* C6: a run of the CLI over a loaded JSON array reports one result for every
\* element of the array, whatever the element is.
C6_CliReportsEveryItem ==
    (cli.pc = "done" /\ cli.batch_data # << >>) =>
        /\ cli.exit = 0
        /\ Len(cli.output) = Len(cli.batch_data)

\* ------------------------------------------------------------------------
\* Concurrent HTTP requests on the event loop (main.py under uvicorn)
\* ------------------------------------------------------------------------
\* extract and extract_batch are coroutines (async def) of one event loop: a
\* handler runs until it awaits or returns, and only then may another run.
\* The only await is pdf.read() in extract; extraction_service.extract, the
\* file reads of extract_batch and the OpenAI client are synchronous.

\* The event loop after an awaited call made by r: free for another handler
AwaitedCall(r) == 0

\* The event loop after a synchronous call made by r: still with r. The
\* OpenAI client of LLMService is the synchronous one (llm_service.py line 46)
BlockingCall(r) == r

\* What the two endpoints are asked for
ConcItems ==
    { BatchItem(Str("invoice"), SchemaAB, << "invoice.pdf" >>),
      BatchItem(Str("invoice"), SchemaBA, << "invoice.pdf" >>),
      BatchItem(Str("invoice"), SchemaAB, << "blank.pdf" >>) }

\* An /extract request carries its PDF as an upload and no path; an
\* /extract-batch request carries two items
ConcPayloads ==
    [kind : {"extract"}, upload : Uploads,
     items : { << BatchItem(Str("invoice"), schema, << >>) >> : schema \in {SchemaAB, SchemaBA} }]
        \cup [kind : {"batch"}, upload : {""},
              items : { << x, y >> : x, y \in ConcItems }]

\* The answers of the remote endpoint
ConcOutcomes == {o \in LLMOutcomes : o.kind = "raise" \/ o.content = Obj1}

CurrentItem(t) == t.items[t.i]

\* A request arrives and its handler is called. extract parses the schema and
\* awaits pdf.read() (line 67); extract_batch enters its loop (line 105)
Begin(r, payload) ==
    /\ running = 0
    /\ tasks[r].pc = "new"
    /\ IF payload.kind = "extract"
       THEN /\ tasks' = [tasks EXCEPT ![r] =
                            [NoTask EXCEPT !.kind = "extract", !.pc = "lookup",
                                           !.suspended = TRUE,
                                           !.items = payload.items, !.i = 1,
                                           !.pdf_content = payload.upload]]
            /\ running' = AwaitedCall(r)
       ELSE /\ tasks' = [tasks EXCEPT ![r] =
                            [NoTask EXCEPT !.kind = "batch", !.pc = "item",
                                           !.items = payload.items, !.i = 1]]
            /\ running' = r
    /\ UNCHANGED << coreVars, svcVars, httpVars, cli, llm_calls >>

\* The event loop resumes a handler whose awaited call has completed
Resume(r) ==
    /\ running = 0
    /\ tasks[r].suspended
    /\ running' = r
    /\ tasks' = [tasks EXCEPT ![r].suspended = FALSE]
    /\ UNCHANGED << coreVars, svcVars, httpVars, cli, llm_calls >>

\* r's handler is the one executing
Runs(r) == running = r /\ ~tasks[r].suspended

\* extract_batch: the loop takes the next item and reads its file, or ends
\* and returns the response (main.py lines 105-116, 140-146)
NextItem(r) ==
    /\ Runs(r)
    /\ tasks[r].pc = "item"
    /\ LET t == tasks[r] IN
       IF t.i > Len(t.items)
       THEN /\ tasks' = [tasks EXCEPT ![r].pc = "done"]
            /\ running' = 0
       ELSE LET pdf == ReadItemPdf(CurrentItem(t).pdf_path) IN
            /\ tasks' = [tasks EXCEPT ![r] =
                    IF pdf.found
                    THEN [t EXCEPT !.pc = "lookup", !.pdf_content = pdf.pdf_content]
                    ELSE [t EXCEPT !.i = t.i + 1,
                                   !.paths = Append(t.paths, "file_not_found")]]
            /\ running' = r
    /\ UNCHANGED << coreVars, svcVars, httpVars, cli, llm_calls >>

\* ExtractionService.extract, lines 33-43: the cache lookup
Lookup(r) ==
    /\ Runs(r)
    /\ tasks[r].pc = "lookup"
    /\ LET t == tasks[r]
           cached_result == CacheGet(cache, t.pdf_content, CurrentItem(t).extraction_schema)
       IN  tasks' = [tasks EXCEPT ![r] =
                IF DictTruthy(cached_result)
                THEN [t EXCEPT !.pc = "respond",
                               !.paths = Append(t.paths, "hit")]
                ELSE [t EXCEPT !.pc = "text"]]
    /\ running' = r
    /\ UNCHANGED << coreVars, svcVars, httpVars, cli, llm_calls >>

\* ExtractionService.extract, lines 45-54: the text of the PDF
Text(r) ==
    /\ Runs(r)
    /\ tasks[r].pc = "text"
    /\ LET t == tasks[r]
           text == extract_text_from_pdf(t.pdf_content)
       IN  tasks' = [tasks EXCEPT ![r] =
                IF ~TextTruthy(text)
                THEN [t EXCEPT !.pc = "respond",
                               !.paths = Append(t.paths, "notext")]
                ELSE [t EXCEPT !.pc = "llm"]]
    /\ running' = r
    /\ UNCHANGED << coreVars, svcVars, httpVars, cli, llm_calls >>

\* ExtractionService.extract, lines 56-66: the LLM service is taken and the
\* remote endpoint is called through the synchronous client
LLMCall(r, outcome) ==
    /\ Runs(r)
    /\ tasks[r].pc = "llm"
    /\ LET t == tasks[r]
           item == CurrentItem(t)
           got == get_llm_service(llm_service, api_key)
           llm == extract_data(extract_text_from_pdf(t.pdf_content),
                               item.extraction_schema, item.label, outcome)
       IN  /\ llm_service' = got.llm_service
           /\ IF got.raised
              THEN /\ tasks' = [tasks EXCEPT ![r] =
                            [t EXCEPT !.pc = "respond",
                                      !.paths = Append(t.paths, "raised")]]
                   /\ running' = r
                   /\ UNCHANGED llm_calls
              ELSE /\ tasks' = [tasks EXCEPT ![r] =
                            [t EXCEPT !.pc = "store",
                                      !.suspended = BlockingCall(r) # r,
                                      !.pending = Result(llm.extracted_data, llm.cost, FALSE)]]
                   /\ running' = BlockingCall(r)
                   /\ llm_calls' = Bump(llm_calls,
                                        _generate_key(t.pdf_content, item.extraction_schema))
    /\ UNCHANGED << cache, api_key, svcVars, httpVars, cli >>

\* ExtractionService.extract, lines 67-69: the result is stored
Store(r) ==
    /\ Runs(r)
    /\ tasks[r].pc = "store"
    /\ LET t == tasks[r] IN
       /\ cache' = CacheSet(cache, t.pdf_content, CurrentItem(t).extraction_schema,
                            t.pending)
       /\ tasks' = [tasks EXCEPT ![r] =
                        [t EXCEPT !.pc = "respond", !.pending = NoResult,
                                  !.paths = Append(t.paths, "llm")]]
    /\ running' = r
    /\ UNCHANGED << llm_service, api_key, svcVars, httpVars, cli, llm_calls >>

\* extract returned (or raised) to the handler: extract answers the request,
\* extract_batch appends the record and goes on with its loop
Respond(r) ==
    /\ Runs(r)
    /\ tasks[r].pc = "respond"
    /\ IF tasks[r].kind = "extract"
       THEN /\ tasks' = [tasks EXCEPT ![r].pc = "done"]
            /\ running' = 0
       ELSE /\ tasks' = [tasks EXCEPT ![r].pc = "item", ![r].i = tasks[r].i + 1]
            /\ running' = r
    /\ UNCHANGED << coreVars, svcVars, httpVars, cli, llm_calls >>

ConcNext ==
    \/ \E r \in Requests, payload \in ConcPayloads : Begin(r, payload)
    \/ \E r \in Requests : Resume(r)
    \/ \E r \in Requests : NextItem(r)
    \/ \E r \in Requests : Lookup(r)
    \/ \E r \in Requests : Text(r)
    \/ \E r \in Requests, o \in ConcOutcomes : LLMCall(r, o)
    \/ \E r \in Requests : Store(r)
    \/ \E r \in Requests : Respond(r)

\* One server process with several requests in flight
SpecConc == Init /\ [][ConcNext]_vars

\* ------------------------------------------------------------------------
\* Properties of the extraction service (under Spec)
\* ------------------------------------------------------------------------

\* The step is a call of extract
IsExtractStep == ncalls' = ncalls + 1 /\ last'.op = "extract"

\* The step is a call of extract that follows a call of extract with the same
\* bytes and the same schema (same items, same order), both of which returned
IsRepeatStep ==
    /\ IsExtractStep
    /\ last.op = "extract"
    /\ last'.pdf_content = last.pdf_content
    /\ last'.extraction_schema = last.extraction_schema
    /\ ~last.raised /\ ~last'.raised

KeyOf(call) == _generate_key(call.pdf_content, call.extraction_schema)

SameDataAndCost(r1, r2) ==
    r1.extracted_data = r2.extracted_data /\ r1.cost = r2.cost

\* C1 as stated: for every (bytes, schema), from a cache with no entry for the
\* pair, two calls in sequence give cache_hit = false then cache_hit = true with
\* the same extracted_data and cost.
C1_AnyDocument ==
    [][(IsRepeatStep /\ ~last.had_entry) =>
            /\ last.result.cache_hit = FALSE
            /\ last'.result.cache_hit = TRUE
            /\ SameDataAndCost(last.result, last'.result)]_vars

\* C1 amended: the same, for the documents whose text extraction yields text.
C1_DocumentWithText ==
    [][(/\ IsRepeatStep
        /\ ~last.had_entry
        /\ extract_text_from_pdf(last.pdf_content) # None) =>
            /\ last.result.cache_hit = FALSE
            /\ last'.result.cache_hit = TRUE
            /\ SameDataAndCost(last.result, last'.result)]_vars

C1_Witness ==
    /\ last.op = "extract"
    /\ last.path = "hit"
    /\ last.prev.path \in {"llm_ok", "llm_fail"}
    /\ last.prev.extraction_schema = last.extraction_schema
    /\ last.result.cost > 0

\* C2: a call for a document with no text returns every schema field as None,
\* cost 0, cache_hit = false, invokes no LLM and leaves the cache as it was,
\* with no entry under the call's key: the next identical call misses again.
C2_NoTextNeverCached ==
    [][(IsExtractStep /\ extract_text_from_pdf(last'.pdf_content) = None) =>
            /\ ~last'.raised
            /\ last'.path = "notext"
            /\ last'.result =
                    Result(AllNone(last'.extraction_schema), 0, FALSE)
            /\ ~last'.llm_called
            /\ cache' = cache
            /\ KeyOf(last') \notin DOMAIN cache']_vars

C2_Witness ==
    /\ last.op = "extract"
    /\ last.path = "notext"
    /\ last.prev.path = "notext"
    /\ last.prev.extraction_schema = last.extraction_schema
    /\ cache # << >>

\* C3: when the remote call or the parsing of its response fails, the call
\* does not raise: it returns every schema field as None with cost 0 and
\* stores that in the cache; the next call with the same bytes and schema is a
\* cache hit with the same all-None result and does not invoke the LLM.
C3_FailureIsCached ==
    [][/\ (IsExtractStep /\ last'.llm_called /\ last'.outcome.kind # "ok") =>
            /\ ~last'.raised
            /\ last'.result = Result(AllNone(last'.extraction_schema), 0, FALSE)
            /\ KeyOf(last') \in DOMAIN cache'
            /\ SameDataAndCost(cache'[KeyOf(last')], last'.result)
       /\ (IsRepeatStep /\ last.llm_called /\ last.outcome.kind # "ok") =>
            /\ last'.result = Result(AllNone(last.extraction_schema), 0, TRUE)
            /\ ~last'.llm_called]_vars

C3_Witness ==
    /\ last.op = "extract"
    /\ last.path = "hit"
    /\ last.prev.path = "llm_fail"
    /\ last.prev.extraction_schema = last.extraction_schema
    /\ last.result = Result(AllNone(last.extraction_schema), 0, TRUE)

\* Two dicts with the same items, inserted in different orders
Reordered(s1, s2) ==
    /\ s1 # s2
    /\ {s1[i] : i \in DOMAIN s1} = {s2[i] : i \in DOMAIN s2}

\* C4: two schemas with the same items in different insertion order give the
\* same cache key for the same bytes: once a call has stored a result under
\* one order, the call with the other order is a cache hit with that result.
C4_KeyIgnoresInsertionOrder ==
    [][(/\ IsExtractStep
        /\ last.op = "extract"
        /\ last.path \in {"llm_ok", "llm_fail"}
        /\ last'.pdf_content = last.pdf_content
        /\ Reordered(last.extraction_schema, last'.extraction_schema)) =>
            /\ KeyOf(last') = KeyOf(last)
            /\ ~last'.raised
            /\ last'.result.cache_hit = TRUE
            /\ SameDataAndCost(last'.result, last.result)]_vars

C4_Witness ==
    /\ last.op = "extract"
    /\ last.path = "hit"
    /\ last.prev.path = "llm_ok"
    /\ Reordered(last.prev.extraction_schema, last.extraction_schema)

\* C8: on every path the extracted_data of a returned result has exactly the
\* schema's keys: a field the model left out is None, a field it made up is
\* dropped.
C8_ResultKeysAreSchemaKeys ==
    (last.op = "extract" /\ ~last.raised) =>
        /\ DOMAIN last.result.extracted_data = Keys(last.extraction_schema)
        /\ last.path = "llm_ok" =>
                \A f \in Keys(last.extraction_schema) :
                    last.result.extracted_data[f] = JsonGet(last.outcome.content, f)

\* The model left out invoice_number and made up vendor
C8_Witness ==
    /\ last.op = "extract"
    /\ last.path = "llm_ok"
    /\ last.outcome.content = Obj3
    /\ last.extraction_schema = SchemaAB
    /\ last.result.extracted_data["invoice_number"] = None

\* ------------------------------------------------------------------------
\* Properties of the HTTP endpoints (under SpecHttp)
\* ------------------------------------------------------------------------

IsBatchResponse == resp.endpoint = "/extract-batch"

\* C5: extract_batch answers a batch of N items with N results in input
\* order whatever fails: an item whose processing raised has the all-None
\* record with cost 0 and cache_hit = false in its place, every other item has
\* the record of what the pipeline returned for it, and the loop never stops
\* early.
C5_BatchIsolatesFailures ==
    /\ handler = "batch" => Len(batch.results) = batch.i - 1
    /\ IsBatchResponse =>
        /\ resp.status = 200
        /\ Len(resp.results) = Len(resp.requests)
        /\ \A i \in DOMAIN resp.requests :
            /\ DOMAIN resp.results[i].extracted_data =
                    Keys(resp.requests[i].extraction_schema)
            /\ IF resp.fates[i] = "ok"
               THEN resp.results[i] = resp.pipeline[i]
               ELSE resp.results[i] =
                        ExtractionResponse(
                            AllNone(resp.requests[i].extraction_schema), 0, FALSE)

\* Item 2 of 3 raised and items 1 and 3 went through the LLM and the cache
C5_Witness ==
    /\ IsBatchResponse
    /\ Len(resp.requests) = 3
    /\ resp.fates[1] = "ok" /\ resp.results[1].cost > 0
    /\ resp.fates[2] \in {"file_not_found", "extract_raised", "response_invalid"}
    /\ resp.fates[3] = "ok" /\ resp.results[3].cache_hit

\* C7: POST /extract answers 400 when extraction_schema is not valid JSON, and
\* 500 only for other failures.
C7_MalformedSchemaIs400 ==
    resp.endpoint = "/extract" =>
        /\ resp.schema_kind = "malformed" => resp.status = 400
        /\ resp.status = 500 => resp.schema_kind # "malformed"

RECURSIVE SumCost(_)
SumCost(results) ==
    IF results = << >> THEN 0 ELSE Head(results).cost + SumCost(Tail(results))

\* C9: total_cost of the batch response is the sum of the cost fields of the
\* results it returns.
C9_TotalIsSumOfResults ==
    IsBatchResponse => resp.total_cost = SumCost(resp.results)

\* ------------------------------------------------------------------------
\* Properties of concurrent requests (under SpecConc)
\* ------------------------------------------------------------------------

\* The extraction of r has looked the cache up and has not yet stored or returned
InPipeline(r) == tasks[r].pc \in {"text", "llm", "store"}

\* The step is a cache lookup or an LLM call made by r
LooksUpOrCalls(r) ==
    /\ tasks[r].pc \in {"lookup", "llm"}
    /\ tasks'[r].pc # tasks[r].pc

TaskKey(r) ==
    _generate_key(tasks[r].pdf_content, CurrentItem(tasks[r]).extraction_schema)

\* C10: extractions never interleave. In a batch every earlier item has
\* its record before the next item's pipeline runs; at most one extraction of
\* the process is between its cache lookup and its cache store; while one is,
\* no other request looks the cache up or calls the LLM; and no fingerprint
\* is sent to the LLM twice.
C10_ExtractionsNeverInterleave ==
    /\ [](\A r \in Requests :
            (tasks[r].kind = "batch"
                    /\ tasks[r].pc \in {"item", "lookup", "text", "llm", "store"})
                => Len(tasks[r].paths) = tasks[r].i - 1)
    /\ [](\A r, q \in Requests : (InPipeline(r) /\ InPipeline(q)) => r = q)
    /\ [][\A r, q \in Requests :
            (InPipeline(r) /\ q # r) => ~LooksUpOrCalls(q)]_vars
    /\ [](\A k \in DOMAIN llm_calls : llm_calls[k] <= 1)

\* Two requests for one fingerprint in flight: one has called the LLM and not
\* yet stored, the other was received and waits at its await
C10_Witness ==
    \E r, q \in Requests :
        /\ r # q
        /\ tasks[r].pc = "store"
        /\ tasks[q].kind = "extract" /\ tasks[q].suspended
        /\ TaskKey(q) = TaskKey(r)
        /\ tasks[q].items # tasks[r].items

\* ------------------------------------------------------------------------
\* Properties of the cost (under SpecCost)
\* ------------------------------------------------------------------------

\* C11: on a successful LLM call the cost is 75 * input tokens + 300 * output
\* tokens (1e-9 USD) and the result carries the model's field values with
\* cache_hit = false; for 100 input and 20 output tokens that is 13500, and
\* the second call with the same bytes and schema returns the same cost and
\* values with cache_hit = true.
C11_CostFormula ==
    [][/\ (IsExtractStep /\ last'.path = "llm_ok") =>
            /\ last'.result.cost =
                    75 * last'.outcome.prompt_tokens + 300 * last'.outcome.completion_tokens
            /\ last'.result.cache_hit = FALSE
            /\ \A f \in Keys(last'.extraction_schema) :
                    last'.result.extracted_data[f] = JsonGet(last'.outcome.content, f)
            /\ (last'.outcome.prompt_tokens = 100 /\ last'.outcome.completion_tokens = 20)
                    => last'.result.cost = 13500
       /\ (/\ IsRepeatStep
           /\ last.path = "llm_ok"
           /\ last.outcome.prompt_tokens = 100
           /\ last.outcome.completion_tokens = 20) =>
                last'.result =
                    Result([f \in Keys(last.extraction_schema) |->
                                JsonGet(last.outcome.content, f)],
                           13500, TRUE)]_vars

\* The second call after a first one that reported 100 and 20 tokens
C11_Witness ==
    /\ last.op = "extract"
    /\ last.path = "hit"
    /\ last.prev.path = "llm_ok"
    /\ last.prev.extraction_schema = last.extraction_schema
    /\ last.result = Result(Obj1, 13500, TRUE)

\* ------------------------------------------------------------------------
\* Further properties of the extraction service (under Spec)
\* ------------------------------------------------------------------------

\* C12: a cache entry is never changed after it was created: over every call,
\* each key of the cache keeps the extracted_data and cost stored under it,
\* and a key leaves the cache only by clear, which empties it.
C12_EntriesAreImmutable ==
    [][\A k \in DOMAIN cache :
            \/ k \in DOMAIN cache' /\ SameDataAndCost(cache'[k], cache[k])
            \/ last'.op = "clear" /\ cache' = << >>]_vars

\* A call for a key already stored, next to another entry
C12_Witness ==
    /\ last.op = "extract"
    /\ last.had_entry
    /\ last.path = "hit"
    /\ KeyOf(last) \in DOMAIN cache
    /\ Cardinality(DOMAIN cache) >= 2

\* The document opens and the text of its first page is empty or whitespace only
HasBlankFirstPage(pdf_content) ==
    LET pdf == PdfOpen(pdf_content) IN
    /\ pdf.ok
    /\ Len(pdf.pages) > 0
    /\ pdf.pages[1] \in {"", "   "}

\* C13: when the text of the first page is empty or whitespace only, it is
\* treated as absent: extract_text_from_pdf returns None and extract returns
\* every field as None with cost 0, invokes no LLM and caches nothing.
C13_WhitespaceIsAbsent ==
    [][(IsExtractStep /\ HasBlankFirstPage(last'.pdf_content)) =>
            /\ extract_text_from_pdf(last'.pdf_content) = None
            /\ last'.path = "notext"
            /\ last'.result = Result(AllNone(last'.extraction_schema), 0, FALSE)
            /\ ~last'.llm_called
            /\ cache' = cache]_vars

\* C14: the label is not part of the cache key. After a call has stored a
\* result, the call with the same bytes and schema and another label (or
\* none) is a cache hit that returns the stored extracted_data and cost and
\* invokes no LLM, although on a miss its prompt would have differed.
C14_LabelNotInKey ==
    [][(/\ IsRepeatStep
        /\ last.path \in {"llm_ok", "llm_fail"}
        /\ last'.label # last.label) =>
            /\ KeyOf(last') = KeyOf(last)
            /\ last'.path = "hit"
            /\ last'.result.cache_hit = TRUE
            /\ SameDataAndCost(last'.result, last.result)
            /\ ~last'.llm_called
            /\ cache' = cache
            /\ _build_prompt(extract_text_from_pdf(last'.pdf_content),
                             last'.extraction_schema, last'.label) # last.prompt]_vars

\* A hit under a label other than the one the result was computed with
C14_Witness ==
    /\ last.op = "extract"
    /\ last.path = "hit"
    /\ last.prev.path = "llm_ok"
    /\ last.prev.extraction_schema = last.extraction_schema
    /\ last.prev.label # last.label
    /\ last.result.cost > 0

\* C15: with no clear in between, the LLM is invoked at most once per cache
\* key, and it is never invoked by a call that returns cache_hit = true nor by
\* a call whose text extraction gave no text.
C15_AtMostOneLLMCallPerKey ==
    /\ [](\A k \in DOMAIN llm_calls : llm_calls[k] <= 1)
    /\ [][(/\ IsExtractStep
           /\ \/ last'.result.cache_hit
              \/ extract_text_from_pdf(last'.pdf_content) = None) =>
                /\ ~last'.llm_called
                /\ llm_calls' = llm_calls]_vars

\* A second call for a key whose first call went to the LLM
C15_Witness ==
    /\ last.op = "extract"
    /\ last.path = "hit"
    /\ last.prev.path \in {"llm_ok", "llm_fail"}
    /\ KeyOf(last) \in DOMAIN llm_calls
    /\ llm_calls[KeyOf(last)] = 1
    /\ Cardinality(DOMAIN llm_calls) = 2

====
